---- MODULE Spec2Model ----
(***************************************************************************)
(* A model of the regular-expression matcher of src/main.rs: the pattern   *)
(* compiler parse_pattern, the matcher match_pattern with its helpers,     *)
(* and the two process-wide statics BACKREFS and NUM_OF_BACKREFS.          *)
(*                                                                         *)
(* Text is a sequence of one-character strings.  All characters of the     *)
(* model are ASCII, so a byte offset of the Rust code is a character       *)
(* offset here.  A Rust slice &s[n..] is Slice(s, n) and is only taken     *)
(* where the code takes it; a slice whose start lies past the end of the   *)
(* text is the panic "slice".                                              *)
(***************************************************************************)
EXTENDS Integers, Sequences, FiniteSets, TLC

(***************************************************************************)
(* Bounds of the model.                                                    *)
(***************************************************************************)
MaxCalls == 2

(***************************************************************************)
(* The state of the process.                                               *)
(*   BACKREFS, NUM_OF_BACKREFS   the two statics                           *)
(*   overflow_checks             whether the build panics on overflow      *)
(*   main_input_line, main_pattern   the line and the pattern that main    *)
(*                               hands to match_pattern                    *)
(*   status                      "running", or how the process ended       *)
(*   results                     the result of every top-level call so far *)
(*   compiled                    the nodes of the last top-level           *)
(*                               compilation                               *)
(*   log, uses                   history of BACKREFS writes / BackRef uses *)
(***************************************************************************)
VARIABLES BACKREFS, NUM_OF_BACKREFS, overflow_checks, main_input_line, main_pattern, status,
          results, compiled, log, uses

vars == <<BACKREFS, NUM_OF_BACKREFS, overflow_checks, main_input_line, main_pattern, status,
          results, compiled, log, uses>>

(***************************************************************************)
(* Characters.                                                             *)
(***************************************************************************)
DigitSeq == <<"0", "1", "2", "3", "4", "5", "6", "7", "8", "9">>

Digits == {DigitSeq[i] : i \in 1..Len(DigitSeq)}

Letters == {"a", "b", "c", "d", "e", "f", "g", "h", "i", "j", "k", "l", "m",
            "n", "o", "p", "q", "r", "s", "t", "u", "v", "w", "x", "y", "z",
            "A", "B", "C", "D", "E", "F", "G", "H", "I", "J", "K", "L", "M",
            "N", "O", "P", "Q", "R", "S", "T", "U", "V", "W", "X", "Y", "Z"}

\* char::is_digit(10)
is_digit(c) == c \in Digits

\* nc.encode_utf8(..).parse::<usize>().unwrap() of a decimal digit
digit_value(c) == (CHOOSE i \in 1..Len(DigitSeq) : DigitSeq[i] = c) - 1

\* char::is_alphanumeric, on ASCII
is_alphanumeric(c) == c \in Letters \cup Digits

\* &s[n..] for 0 <= n <= s.len()
Slice(s, n) == SubSeq(s, n + 1, Len(s))

\* &s[..n] for 0 <= n <= s.len()
Prefix(s, n) == SubSeq(s, 1, n)

\* str::starts_with(char)
starts_with(s, c) == Len(s) > 0 /\ s[1] = c

(***************************************************************************)
(* Pattern nodes: struct SubPattern { kind, modifier }.                    *)
(***************************************************************************)
SubPattern(kind, modifier) == [kind |-> kind, modifier |-> modifier]

Literal(c) == [tag |-> "Literal", c |-> c]

Alternatives(v) == [tag |-> "Alternatives", v |-> v]

NotAlternatives(v) == [tag |-> "NotAlternatives", v |-> v]

AlternateGroups(bref, groups) == [tag |-> "AlternateGroups", bref |-> bref, groups |-> groups]

BackRef(i) == [tag |-> "BackRef", i |-> i]

Simple(tag) == [tag |-> tag]

(***************************************************************************)
(* parse_pattern.  The compiler reads the pattern left to right; cnt is    *)
(* the value of NUM_OF_BACKREFS, threaded through the compilation.  A      *)
(* result is [err, nodes, cnt]; err is "ok" or the panic that ended the    *)
(* compilation ("todo": an unknown or missing escape, "class": a '[' at    *)
(* the end of the pattern).                                                *)
(***************************************************************************)
RECURSIVE scan_group(_, _, _, _, _)
RECURSIVE scan_class(_, _, _)
RECURSIVE parse_from(_, _, _)
RECURSIVE parse_groups(_, _, _)

\* The modifier attached by the peek at the character after a node.
peek_modifier(p, i) ==
  IF i > Len(p) THEN "None"
  ELSE IF p[i] = "+" THEN "OneOrMore"
  ELSE IF p[i] = "*" THEN "ZeroOrMore"
  ELSE IF p[i] = "?" THEN "ZeroOrOne"
  ELSE "None"

\* The scan of a group body: j is the next index to read, depth the nesting
\* depth, groups the alternatives closed so far, contents the open one.
scan_group(p, j, depth, groups, contents) ==
  IF j > Len(p) THEN [groups |-> Append(groups, contents), next |-> j]
  ELSE IF p[j] = "(" THEN scan_group(p, j + 1, depth + 1, groups, Append(contents, p[j]))
  ELSE IF p[j] = ")" THEN
    IF depth - 1 < 0 THEN [groups |-> Append(groups, contents), next |-> j + 1]
    ELSE scan_group(p, j + 1, depth - 1, groups, Append(contents, p[j]))
  ELSE IF p[j] = "|" /\ depth = 0 THEN scan_group(p, j + 1, depth, Append(groups, contents), <<>>)
  ELSE scan_group(p, j + 1, depth, groups, Append(contents, p[j]))

\* The scan of a class body up to ']' or the end of the pattern.
scan_class(p, j, contents) ==
  IF j > Len(p) THEN [contents |-> contents, next |-> j]
  ELSE IF p[j] = "]" THEN [contents |-> contents, next |-> j + 1]
  ELSE scan_class(p, j + 1, Append(contents, p[j]))

\* groups.iter().map(|group| parse_pattern(group)).collect()
parse_groups(groups, k, cnt) ==
  IF k > Len(groups) THEN [err |-> "ok", nodes |-> <<>>, cnt |-> cnt]
  ELSE LET g == parse_from(groups[k], 1, cnt)
       IN IF g.err # "ok" THEN g
          ELSE LET rest == parse_groups(groups, k + 1, g.cnt)
               IN [err |-> rest.err, nodes |-> <<g.nodes>> \o rest.nodes, cnt |-> rest.cnt]

\* One token starting at p[i]: [err, kind, next, cnt].
parse_token(p, i, cnt) ==
  LET c == p[i]
      one(kind) == [err |-> "ok", kind |-> kind, next |-> i + 1, cnt |-> cnt]
      two(kind) == [err |-> "ok", kind |-> kind, next |-> i + 2, cnt |-> cnt]
      bad(e) == [err |-> e, kind |-> Simple("Any"), next |-> i + 1, cnt |-> cnt]
  IN CASE c = "." -> one(Simple("Any"))
       [] c = "^" -> one(Simple("InputStart"))
       [] c = "$" -> one(Simple("InputEnd"))
       [] c = "(" ->
            LET sc == scan_group(p, i + 1, 0, <<>>, <<>>)
                gs == parse_groups(sc.groups, 1, cnt + 1)
            IN [err |-> gs.err, kind |-> AlternateGroups(cnt, gs.nodes),
                next |-> sc.next, cnt |-> gs.cnt]
       [] c = "[" ->
            IF i + 1 > Len(p) THEN bad("class")
            ELSE LET neg == p[i + 1] = "^"
                     sc == scan_class(p, i + 2, IF neg THEN <<>> ELSE <<p[i + 1]>>)
                     v == parse_from(sc.contents, 1, cnt)
                 IN [err |-> v.err,
                     kind |-> IF neg THEN NotAlternatives(v.nodes) ELSE Alternatives(v.nodes),
                     next |-> sc.next, cnt |-> v.cnt]
       [] c = "\\" ->
            IF i + 1 > Len(p) THEN bad("todo")
            ELSE IF p[i + 1] = "\\" THEN two(Literal("\\"))
            ELSE IF p[i + 1] = "d" THEN two(Simple("Digit"))
            ELSE IF p[i + 1] = "w" THEN two(Simple("AlphaNumeric"))
            ELSE IF is_digit(p[i + 1]) THEN two(BackRef(digit_value(p[i + 1])))
            ELSE bad("todo")
       [] OTHER -> one(Literal(c))

parse_from(p, i, cnt) ==
  IF i > Len(p) THEN [err |-> "ok", nodes |-> <<>>, cnt |-> cnt]
  ELSE IF p[i] \in {"+", "*", "?"} THEN parse_from(p, i + 1, cnt)
  ELSE LET tok == parse_token(p, i, cnt)
       IN IF tok.err # "ok" THEN [err |-> tok.err, nodes |-> <<>>, cnt |-> tok.cnt]
          ELSE LET sp == SubPattern(tok.kind, peek_modifier(p, tok.next))
                   rest == parse_from(p, tok.next, tok.cnt)
               IN [err |-> rest.err, nodes |-> <<sp>> \o rest.nodes, cnt |-> rest.cnt]

parse_pattern(pattern, cnt) == parse_from(pattern, 1, cnt)

(***************************************************************************)
(* The matcher.  st is the process-wide state threaded through a call:     *)
(*   st.br    BACKREFS, a function from group id to captured text          *)
(*   st.cnt   NUM_OF_BACKREFS                                              *)
(*   st.log   history: every BACKREFS write, [id, text, table after it]    *)
(*   st.uses  history: every BackRef evaluation that found a capture       *)
(* rl says that the calling thread holds the read lock of BACKREFS (it is  *)
(* held by the BackRef arm across its call of match_pattern).              *)
(*                                                                         *)
(* A result is [k, n, st]: k = "Some" with the consumed length n, "None",  *)
(* or the way the call does not return:                                    *)
(*   "unreachable" the unreachable!() of the InputStart arm                *)
(*   "slice"       a slice that starts past the end of the text            *)
(*   "unwrap"      unwrap() of None in the backtracking retry              *)
(*   "overflow"    *i - 1 with i = 0, in a build with overflow checks      *)
(*   "todo", "class"  a panic of parse_pattern                             *)
(*   "relock"      BACKREFS.write() while this thread holds the read lock  *)
(*   "hang"        the repetition loop repeating one iteration forever     *)
(***************************************************************************)
Res(k, n, st) == [k |-> k, n |-> n, st |-> st]

\* HashMap::entry(id).or_insert(text)
insert_overwrite(br, id, text) ==
  [k \in DOMAIN br \cup {id} |-> IF k = id THEN text ELSE br[k]]

or_insert(br, id, text) ==
  IF id \in DOMAIN br THEN br ELSE [k \in DOMAIN br \cup {id} |-> IF k = id THEN text ELSE br[k]]

\* BACKREFS.write().unwrap().entry(*bref).or_insert(remaining[..offset].to_string())
write_backref(st, id, text) ==
  LET table == or_insert(st.br, id, text)
  IN [st EXCEPT !.br = table,
                !.log = Append(@, [id |-> id, text |-> text, table |-> table])]

\* Where the code binds the result of a call and then tests it, the model hands the
\* result to an operator named after the place (.._next, .._found, ..) as its last
\* parameter.
RECURSIVE alternatives_next(_, _, _, _, _)
RECURSIVE match_alternatives(_, _, _, _, _)
RECURSIVE not_alternatives_next(_, _, _, _, _)
RECURSIVE match_not_alternatives(_, _, _, _, _)
RECURSIVE groups_next(_, _, _, _, _, _)
RECURSIVE match_groups(_, _, _, _, _, _)
RECURSIVE backref_matched(_, _, _)
RECURSIVE match_subpattern_kind(_, _, _, _)
RECURSIVE repeat_next(_, _, _, _, _)
RECURSIVE repeat_kind(_, _, _, _)
RECURSIVE match_subpattern(_, _, _, _)
RECURSIVE start_next(_, _, _, _, _)
RECURSIVE find_match_start_from(_, _, _, _, _)
RECURSIVE find_match_start(_, _, _, _)
RECURSIVE all_next(_, _, _, _, _, _)
RECURSIVE match_all_from(_, _, _, _, _, _)
RECURSIVE match_all_subpatterns(_, _, _, _)
RECURSIVE advance(_, _, _, _, _, _, _, _)
RECURSIVE retry_matched(_, _, _, _, _, _, _)
RECURSIVE retry_found(_, _, _, _, _, _, _)
RECURSIVE node_matched(_, _, _, _, _, _, _, _, _)
RECURSIVE match_nodes(_, _, _, _, _, _, _, _, _)
RECURSIVE start_found(_, _, _, _)
RECURSIVE compiled_then(_, _, _, _, _)
RECURSIVE match_pattern(_, _, _, _, _)

\* if let Some(offset) = match_subpattern(remaining, alternative) { return Some(offset); }
alternatives_next(remaining, v, i, rl, r) ==
  IF r.k = "None" THEN match_alternatives(remaining, v, i + 1, r.st, rl) ELSE r

\* for alternative in v { .. } None
match_alternatives(remaining, v, i, st, rl) ==
  IF i > Len(v) THEN Res("None", 0, st)
  ELSE alternatives_next(remaining, v, i, rl, match_subpattern(remaining, v[i], st, rl))

\* if let Some(_) = match_subpattern(remaining, alternative) { return None; }
not_alternatives_next(remaining, v, i, rl, r) ==
  IF r.k = "None" THEN match_not_alternatives(remaining, v, i + 1, r.st, rl)
  ELSE IF r.k = "Some" THEN Res("None", 0, r.st)
  ELSE r

\* for alternative in v { .. } Some(1)
match_not_alternatives(remaining, v, i, st, rl) ==
  IF i > Len(v) THEN Res("Some", 1, st)
  ELSE not_alternatives_next(remaining, v, i, rl,
                             match_subpattern(remaining, v[i], st, rl))

\* if let Some(offset) = match_all_subpatterns(remaining, g) { record; return Some(offset); }
groups_next(remaining, bref, groups, i, rl, r) ==
  IF r.k = "None" THEN match_groups(remaining, bref, groups, i + 1, r.st, rl)
  ELSE IF r.k = "Some" THEN
    IF rl THEN Res("relock", 0, r.st)
    ELSE Res("Some", r.n, write_backref(r.st, bref, Prefix(remaining, r.n)))
  ELSE r

\* for g in groups { .. } None
match_groups(remaining, bref, groups, i, st, rl) ==
  IF i > Len(groups) THEN Res("None", 0, st)
  ELSE groups_next(remaining, bref, groups, i, rl,
                   match_all_subpatterns(remaining, groups[i], st, rl))

\* if let Some((start, end)) = match_pattern(remaining, g.as_str(), true) { .. } None
backref_matched(remaining, g, m) ==
  LET used(k, n) == [m.st EXCEPT !.uses = @ \cup
                       {[g |-> g, remaining |-> remaining, k |-> k, n |-> n]}]
  IN IF m.k = "Some" THEN
       IF m.start = 0 THEN Res("Some", m.end, used("Some", m.end))
       ELSE Res("None", 0, used("None", 0))
     ELSE IF m.k = "None" THEN Res("None", 0, used("None", 0))
     ELSE Res(m.k, 0, m.st)

match_subpattern_kind(remaining, kind, st, rl) ==
  CASE kind.tag = "InputStart" -> Res("unreachable", 0, st)
    [] kind.tag = "InputEnd" ->
         IF remaining = <<>> THEN Res("Some", 0, st) ELSE Res("None", 0, st)
    [] kind.tag = "Any" ->
         IF remaining # <<>> THEN Res("Some", 1, st) ELSE Res("None", 0, st)
    [] kind.tag = "Literal" ->
         IF starts_with(remaining, kind.c) THEN Res("Some", 1, st) ELSE Res("None", 0, st)
    [] kind.tag = "Digit" ->
         IF remaining # <<>> /\ is_digit(remaining[1]) THEN Res("Some", 1, st)
         ELSE Res("None", 0, st)
    [] kind.tag = "AlphaNumeric" ->
         IF remaining # <<>> /\ (is_alphanumeric(remaining[1]) \/ remaining[1] = "_")
         THEN Res("Some", 1, st)
         ELSE Res("None", 0, st)
    [] kind.tag = "Alternatives" -> match_alternatives(remaining, kind.v, 1, st, rl)
    [] kind.tag = "NotAlternatives" -> match_not_alternatives(remaining, kind.v, 1, st, rl)
    [] kind.tag = "AlternateGroups" ->
         match_groups(remaining, kind.bref, kind.groups, 1, st, rl)
    [] kind.tag = "BackRef" ->
         IF kind.i = 0 THEN
           \* *i - 1 on usize: a panic with overflow checks, else usize::MAX, never a key
           IF overflow_checks THEN Res("overflow", 0, st) ELSE Res("None", 0, st)
         ELSE IF (kind.i - 1) \notin DOMAIN st.br THEN Res("None", 0, st)
         ELSE backref_matched(remaining, st.br[kind.i - 1],
                              match_pattern(remaining, st.br[kind.i - 1], TRUE, st, TRUE))

\* One turn of the while-let loop of the ZeroOrMore / OneOrMore arm, r the result of
\* match_subpattern_kind.  An iteration that consumes nothing of a non-empty text and
\* leaves BACKREFS as it was is followed by the same iteration again, for ever.
repeat_next(still_remaining, kind, st, rl, r) ==
  IF r.k = "None" THEN [k |-> "Some", still |-> still_remaining, st |-> r.st]
  ELSE IF r.k # "Some" THEN [k |-> r.k, still |-> still_remaining, st |-> r.st]
  ELSE IF r.n > Len(still_remaining) THEN [k |-> "slice", still |-> still_remaining, st |-> r.st]
  ELSE IF Slice(still_remaining, r.n) = <<>> THEN [k |-> "Some", still |-> <<>>, st |-> r.st]
  ELSE IF r.n = 0 /\ r.st.br = st.br THEN [k |-> "hang", still |-> still_remaining, st |-> r.st]
  ELSE repeat_kind(Slice(still_remaining, r.n), kind, r.st, rl)

\* The while-let loop: [k, still, st], k = "Some" when the loop ends.
repeat_kind(still_remaining, kind, st, rl) ==
  repeat_next(still_remaining, kind, st, rl,
              match_subpattern_kind(still_remaining, kind, st, rl))

\* After the loop, l its outcome.
repeated(remaining, sp, l) ==
  IF l.k # "Some" THEN Res(l.k, 0, l.st)
  ELSE IF sp.modifier = "OneOrMore" /\ Len(remaining) - Len(l.still) = 0 THEN Res("None", 0, l.st)
  ELSE Res("Some", Len(remaining) - Len(l.still), l.st)

\* if let Some(offset) = match_subpattern_kind(..) { Some(offset) } else { Some(0) }
optional(r) == IF r.k = "None" THEN Res("Some", 0, r.st) ELSE r

match_subpattern(remaining, sp, st, rl) ==
  CASE sp.modifier \in {"ZeroOrMore", "OneOrMore"} ->
         repeated(remaining, sp, repeat_kind(remaining, sp.kind, st, rl))
    [] sp.modifier = "ZeroOrOne" -> optional(match_subpattern_kind(remaining, sp.kind, st, rl))
    [] OTHER -> match_subpattern_kind(remaining, sp.kind, st, rl)

\* if let Some(offset) = match_subpattern(&input[n..], sp) { return Some((&input[n + offset..], n)); }
start_next(input, sp, n, rl, r) ==
  IF r.k = "None" THEN find_match_start_from(input, sp, n + 1, r.st, rl)
  ELSE IF r.k # "Some" THEN [k |-> r.k, n |-> n, rest |-> <<>>, st |-> r.st]
  ELSE IF n + r.n > Len(input) THEN [k |-> "slice", n |-> n, rest |-> <<>>, st |-> r.st]
  ELSE [k |-> "Some", n |-> n, rest |-> Slice(input, n + r.n), st |-> r.st]

\* for n in 0..input.len(): [k, n, rest, st], rest the text after the first node's match
find_match_start_from(input, sp, n, st, rl) ==
  IF n >= Len(input) THEN [k |-> "None", n |-> 0, rest |-> <<>>, st |-> st]
  ELSE start_next(input, sp, n, rl, match_subpattern(Slice(input, n), sp, st, rl))

find_match_start(input, sp, st, rl) == find_match_start_from(input, sp, 0, st, rl)

\* let Some(offset) = match_subpattern(remaining, sp) else { return None; }; remaining = &remaining[offset..];
all_next(input, subpatterns, i, remaining, rl, r) ==
  IF r.k # "Some" THEN r
  ELSE IF r.n > Len(remaining) THEN Res("slice", 0, r.st)
  ELSE match_all_from(input, subpatterns, i + 1, Slice(remaining, r.n), r.st, rl)

match_all_from(input, subpatterns, i, remaining, st, rl) ==
  IF i > Len(subpatterns) THEN Res("Some", Len(input) - Len(remaining), st)
  ELSE all_next(input, subpatterns, i, remaining, rl,
                match_subpattern(remaining, subpatterns[i], st, rl))

match_all_subpatterns(input, subpatterns, st, rl) ==
  match_all_from(input, subpatterns, 1, input, st, rl)

(***************************************************************************)
(* match_pattern.  A result is [k, start, end, st, anchor]; anchor records *)
(* the outcome of the anchor selection: how ("empty", "forced", "anchored" *)
(* , "search"), whether a start was found, and the start.                  *)
(***************************************************************************)
MRes(k, start, end, st, anchor) ==
  [k |-> k, start |-> start, end |-> end, st |-> st, anchor |-> anchor]

Anchor(how, k, n) == [how |-> how, k |-> k, n |-> n]

NoSp == SubPattern(Simple("NoPrevious"), "None")

\* The call does not return a span: k = "None", or the way it ends.
stop(k, st) == [k |-> k, start |-> 0, end |-> 0, st |-> st]

\* The condition under which a failed node is retried after a roll-back.
can_backtrack(psp) ==
  \/ psp.modifier \in {"ZeroOrMore", "OneOrMore"}
  \/ psp.kind.tag = "AlternateGroups"

\* previous_sp = Some(sp); previous_remaining = remaining; remaining = &remaining[offset..];
advance(input_line, subpatterns, i, remaining, offset, match_start, st, rl) ==
  IF offset > Len(remaining) THEN stop("slice", st)
  ELSE match_nodes(input_line, subpatterns, i + 1, Slice(remaining, offset), subpatterns[i],
                   remaining, match_start, st, rl)

\* match_subpattern(remaining, sp).unwrap(), m the result of the call
retry_matched(input_line, subpatterns, i, remaining, match_start, rl, m) ==
  IF m.k = "Some" THEN advance(input_line, subpatterns, i, remaining, m.n, match_start, m.st, rl)
  ELSE IF m.k = "None" THEN stop("unwrap", m.st)
  ELSE stop(m.k, m.st)

\* let Some((_, match_start)) = find_match_start(remaining, sp) else { return None; };
\* remaining = &remaining[match_start..];
retry_found(input_line, subpatterns, i, rolled, match_start, rl, f) ==
  IF f.k # "Some" THEN stop(f.k, f.st)
  ELSE retry_matched(input_line, subpatterns, i, Slice(rolled, f.n), match_start, rl,
                     match_subpattern(Slice(rolled, f.n), subpatterns[i], f.st, rl))

\* match match_subpattern(remaining, sp) { Some(offset) => offset, None => backtrack }
node_matched(input_line, subpatterns, i, remaining, previous_sp, previous_remaining, match_start, rl, r) ==
  IF r.k = "Some" THEN advance(input_line, subpatterns, i, remaining, r.n, match_start, r.st, rl)
  ELSE IF r.k # "None" THEN stop(r.k, r.st)
  ELSE IF previous_sp = NoSp \/ ~can_backtrack(previous_sp) THEN stop("None", r.st)
  ELSE IF previous_sp.modifier = "ZeroOrMore"
    THEN retry_found(input_line, subpatterns, i, previous_remaining, match_start, rl,
                     find_match_start(previous_remaining, subpatterns[i], r.st, rl))
  ELSE IF Len(previous_remaining) < 1 THEN stop("slice", r.st)
  ELSE retry_found(input_line, subpatterns, i, Slice(previous_remaining, 1), match_start, rl,
                   find_match_start(Slice(previous_remaining, 1), subpatterns[i], r.st, rl))

\* The for loop over the remaining nodes (i is the index of the node at hand).
match_nodes(input_line, subpatterns, i, remaining, previous_sp, previous_remaining, match_start, st, rl) ==
  IF i > Len(subpatterns)
  THEN [k |-> "Some", start |-> match_start, end |-> Len(input_line) - Len(remaining), st |-> st]
  ELSE node_matched(input_line, subpatterns, i, remaining, previous_sp, previous_remaining,
                    match_start, rl, match_subpattern(remaining, subpatterns[i], st, rl))

\* The result of the loop, with the anchor it started from.
with_anchor(w, anchor) == MRes(w.k, w.start, w.end, w.st, anchor)

\* let Some((remaining, match_start)) = find_match_start(..) else { return None; };
\* subpatterns.remove(0);
start_found(input_line, subpatterns, rl, f) ==
  IF f.k # "Some" THEN MRes(f.k, 0, 0, f.st, Anchor("search", f.k, 0))
  ELSE with_anchor(match_nodes(input_line, Tail(subpatterns), 1, f.rest, NoSp, f.rest, f.n, f.st, rl),
                   Anchor("search", "Some", f.n))

\* match_pattern after parse_pattern, p the result of the compilation
compiled_then(input_line, force_from_start, st, rl, p) ==
  IF p.err # "ok" THEN MRes(p.err, 0, 0, st, Anchor("none", "None", 0))
  ELSE IF p.nodes = <<>> THEN MRes("Some", 0, 0, st, Anchor("empty", "Some", 0))
  ELSE IF force_from_start \/ p.nodes[1].kind.tag = "InputStart" THEN
    with_anchor(match_nodes(input_line, IF force_from_start THEN p.nodes ELSE Tail(p.nodes), 1,
                            input_line, NoSp, input_line, 0, st, rl),
                Anchor(IF force_from_start THEN "forced" ELSE "anchored", "Some", 0))
  ELSE start_found(input_line, p.nodes, rl, find_match_start(input_line, p.nodes[1], st, rl))

\* The statics after the compilation.
after_parse(st, p) == [st EXCEPT !.cnt = p.cnt]

match_pattern(input_line, pattern, force_from_start, st, rl) ==
  compiled_then(input_line, force_from_start,
                after_parse(st, parse_pattern(pattern, st.cnt)), rl,
                parse_pattern(pattern, st.cnt))

(***************************************************************************)
(* The process.  main hands one line and one pattern to match_pattern;     *)
(* the statics outlive the call, so the model lets the same process call   *)
(* match_pattern again (MaxCalls times in all) on the same arguments.      *)
(***************************************************************************)
\* All texts of at most n characters of chars.
Texts(chars, n) == UNION {[1..k -> chars] : k \in 0..n}

\* How the process goes on after a call that ended as k.  A write of BACKREFS by the
\* thread that holds its read lock deadlocks or panics, as the platform's lock has it.
StatusAfter(k) ==
  IF k \in {"Some", "None"} THEN {"running"}
  ELSE IF k = "hang" THEN {"hung"}
  ELSE IF k = "relock" THEN {"hung", "panicked"}
  ELSE {"panicked"}

InitWith(patterns, inputs) ==
  /\ BACKREFS = <<>>
  /\ NUM_OF_BACKREFS = 0
  /\ overflow_checks \in BOOLEAN
  /\ main_pattern \in patterns
  /\ main_input_line \in inputs
  /\ status = "running"
  /\ results = <<>>
  /\ compiled = [err |-> "none", nodes |-> <<>>]
  /\ log = <<>>
  /\ uses = {}

\* The statics, the histories and the result after a call that ended as m; p is the
\* compilation of the pattern.
Returns(m, p) ==
  /\ BACKREFS' = m.st.br
  /\ NUM_OF_BACKREFS' = m.st.cnt
  /\ log' = m.st.log
  /\ uses' = m.st.uses
  /\ compiled' = [err |-> p.err, nodes |-> p.nodes]
  /\ results' = Append(results, [k |-> m.k, start |-> m.start, end |-> m.end,
                                 anchor |-> m.anchor])
  /\ status' \in StatusAfter(m.k)

\* match_pattern(&input_line, &pattern, false)
CallMatchPattern ==
  /\ status = "running"
  /\ Len(results) < MaxCalls
  /\ Returns(match_pattern(main_input_line, main_pattern, FALSE,
                           [br |-> BACKREFS, cnt |-> NUM_OF_BACKREFS, log |-> log, uses |-> uses],
                           FALSE),
             parse_pattern(main_pattern, NUM_OF_BACKREFS))
  /\ UNCHANGED <<overflow_checks, main_input_line, main_pattern>>

Next == CallMatchPattern

(***************************************************************************)
(* Specifications: the same process, started on different sets of          *)
(* patterns and input lines.                                               *)
(***************************************************************************)
\* Groups with alternatives, and repetition.
MaxPatternLen == 4

MaxInputLen == 2

GroupChars == {"(", ")", "|", ".", "a", "+"}

Init == InitWith(Texts(GroupChars, MaxPatternLen), Texts({"a", "b"}, MaxInputLen))

Spec == Init /\ [][Next]_vars

\* Patterns of literal characters only.
MaxLiteralLen == 3

MaxLiteralInputLen == 3

InitLiteral == InitWith(Texts({"a", "b"}, MaxLiteralLen), Texts({"a", "b"}, MaxLiteralInputLen))

SpecLiteral == InitLiteral /\ [][Next]_vars

\* Literals, '.', '^' and the three quantifiers.
MaxQuantifiedLen == 4

MaxQuantifiedInputLen == 3

QuantifiedChars == {"a", ".", "*", "+", "?", "^"}

InitQuantified ==
  InitWith(Texts(QuantifiedChars, MaxQuantifiedLen), Texts({"a", "b", "c"}, MaxQuantifiedInputLen))

SpecQuantified == InitQuantified /\ [][Next]_vars

\* Groups and backreferences, on lines that hold a metacharacter.
MaxBackRefLen == 5

MaxBackRefInputLen == 2

BackRefChars == {"(", ")", ".", "\\", "1", "2"}

InitBackRef ==
  InitWith(Texts(BackRefChars, MaxBackRefLen), Texts({".", "a", "("}, MaxBackRefInputLen))

SpecBackRef == InitBackRef /\ [][Next]_vars

(***************************************************************************)
(* The claims.                                                             *)
(***************************************************************************)
Calls == 1..Len(results)

Min(S) == CHOOSE n \in S : \A m \in S : n <= m

MetaChars == {".", "^", "$", "(", ")", "|", "[", "]", "\\", "+", "*", "?"}

\* text holds pat at offset n
OccursAt(pat, text, n) ==
  n + Len(pat) <= Len(text) /\ SubSeq(text, n + 1, n + Len(pat)) = pat

\* C1: for a pattern of literal characters only, match_pattern(input, pattern, false)
\* returns a span iff the pattern is a substring of the input, and the span is that of
\* the leftmost occurrence.
C1_LiteralIsSubstringSearch ==
  (\A j \in 1..Len(main_pattern) : main_pattern[j] \notin MetaChars) =>
    \A i \in Calls :
      LET occ == {n \in 0..Len(main_input_line) : OccursAt(main_pattern, main_input_line, n)}
      IN IF occ = {} THEN results[i].k = "None"
         ELSE /\ results[i].k = "Some"
              /\ results[i].start = Min(occ)
              /\ results[i].end = Min(occ) + Len(main_pattern)

\* C2: a BackRef node matches only if the captured text is, character for character, a
\* prefix of the remaining input, and then it consumes exactly the length of the
\* captured text.
C2_BackRefIsVerbatim ==
  \A u \in uses :
    u.k = "Some" => /\ OccursAt(u.g, u.remaining, 0)
                    /\ u.n = Len(u.g)

\* C3: two calls of match_pattern(input, pattern, false) in succession, in one process,
\* return the same result.
C3_SameResultTwice ==
  Len(results) >= 2 =>
    /\ results[1].k = results[2].k
    /\ results[1].start = results[2].start
    /\ results[1].end = results[2].end

\* C4: the backreference table only grows and is write-once per group id: every write,
\* of whatever call, leaves each id that had a capture with the same captured text.
C4_BackrefsWriteOnce ==
  /\ \A i \in 1..Len(log) :
       LET before == IF i = 1 THEN <<>> ELSE log[i - 1].table
       IN \A id \in DOMAIN before :
            id \in DOMAIN log[i].table /\ log[i].table[id] = before[id]
  /\ Len(log) > 0 => BACKREFS = log[Len(log)].table

\* A second call has been made, and some group id was written twice with different
\* texts (the second write found the id taken).
C4_Witness ==
  /\ Len(results) = 2
  /\ \E i, j \in 1..Len(log) : i < j /\ log[i].id = log[j].id /\ log[i].text # log[j].text

RECURSIVE group_ids(_)
RECURSIVE group_ids_of_groups(_)

\* The group ids of a node sequence in pre-order.
group_ids(nodes) ==
  IF nodes = <<>> THEN <<>>
  ELSE LET kind == nodes[1].kind
           here == CASE kind.tag = "AlternateGroups" ->
                          <<kind.bref>> \o group_ids_of_groups(kind.groups)
                     [] kind.tag \in {"Alternatives", "NotAlternatives"} -> group_ids(kind.v)
                     [] OTHER -> <<>>
       IN here \o group_ids(Tail(nodes))

group_ids_of_groups(groups) ==
  IF groups = <<>> THEN <<>> ELSE group_ids(groups[1]) \o group_ids_of_groups(Tail(groups))

\* C5: in every compilation the group ids are 0, 1, 2, ... in pre-order, so that \k,
\* which looks up id k-1, is the k-th group of the pattern.
C5_GroupIdsFromZero ==
  compiled.err = "ok" =>
    LET ids == group_ids(compiled.nodes)
    IN ids = [n \in 1..Len(ids) |-> n - 1]

\* C6: every call of match_pattern terminates; the repetition loop of a ZeroOrMore or
\* OneOrMore node ends also when the node matches without consuming anything.
C6_RepetitionTerminates ==
  \A i \in Calls : results[i].k # "hang"

\* C7: match_subpattern_kind is never called on an InputStart node.
C7_InputStartNeverMatched ==
  \A i \in Calls : results[i].k # "unreachable"

\* C8: without anchoring the start search finds the smallest offset at which the first
\* node matches the suffix of the input, it fails only if there is no such offset, and
\* a first node with ZeroOrOne or ZeroOrMore finds the start 0 on every input.
C8_StartIsFirstMatchingOffset ==
  \A i \in Calls :
    results[i].anchor.how = "search" =>
      LET a == results[i].anchor
          first == compiled.nodes[1]
          st == [br |-> BACKREFS, cnt |-> NUM_OF_BACKREFS, log |-> log, uses |-> uses]
          offs == {n \in 0..Len(main_input_line) :
                     match_subpattern(Slice(main_input_line, n), first, st, FALSE).k = "Some"}
      IN /\ offs = {} => a.k = "None"
         /\ offs # {} => a.k = "Some" /\ a.n = Min(offs)
         /\ first.modifier \in {"ZeroOrOne", "ZeroOrMore"} => a.k = "Some" /\ a.n = 0

RECURSIVE in_language(_, _, _, _)

\* text[pos+1..] is in the regular language of nodes[i..], nodes of kind Literal or Any.
in_language(nodes, i, text, pos) ==
  IF i > Len(nodes) THEN pos = Len(text)
  ELSE LET sp == nodes[i]
           one == /\ pos < Len(text)
                  /\ \/ sp.kind.tag = "Any"
                     \/ sp.kind.tag = "Literal" /\ sp.kind.c = text[pos + 1]
       IN CASE sp.modifier = "None" -> one /\ in_language(nodes, i + 1, text, pos + 1)
            [] sp.modifier = "ZeroOrOne" ->
                 in_language(nodes, i + 1, text, pos)
                   \/ (one /\ in_language(nodes, i + 1, text, pos + 1))
            [] sp.modifier = "ZeroOrMore" ->
                 in_language(nodes, i + 1, text, pos)
                   \/ (one /\ in_language(nodes, i, text, pos + 1))
            [] sp.modifier = "OneOrMore" ->
                 one /\ (in_language(nodes, i + 1, text, pos + 1)
                           \/ in_language(nodes, i, text, pos + 1))

\* C9: for a pattern of literals, '.', a leading '^' and quantifiers, a returned span
\* (start, end) holds a text of the regular language of the pattern.
C9_SpanIsInLanguage ==
  \A i \in Calls :
    LET nodes == compiled.nodes
        anchored == nodes # <<>> /\ nodes[1].kind.tag = "InputStart"
        body == IF anchored THEN Tail(nodes) ELSE nodes
    IN (/\ results[i].k = "Some"
        /\ \A j \in 1..Len(body) : body[j].kind.tag \in {"Literal", "Any"}) =>
         /\ anchored => results[i].start = 0
         /\ results[i].start <= results[i].end
         /\ in_language(body, 1,
                        SubSeq(main_input_line, results[i].start + 1, results[i].end), 0)

\* C10: no node reports a consumed length beyond the text it was given and no roll-back
\* leaves the text, so no slice is out of range and a returned span lies in the input.
C10_CursorInBounds ==
  \A i \in Calls :
    /\ results[i].k # "slice"
    /\ results[i].k = "Some" =>
         /\ 0 <= results[i].start
         /\ results[i].start <= results[i].end
         /\ results[i].end <= Len(main_input_line)
====
